---- MODULE Spec2Model ----
(***************************************************************************)
(* File I/O micro-benchmarks of leopoldsprenger/simple-file-io:            *)
(*   bench/benchmark_python.py  median-of-N harness with cache advisory    *)
(*   bench/bench_python_all.py  single-trial benchmarks, time.time()       *)
(*   bench/bench_python.py      single-trial write-all / read-all          *)
(* A file is a sequence of byte values; text is a sequence of one-char     *)
(* strings.  Payload sizes are scaled down (see the bounds below).         *)
(***************************************************************************)
EXTENDS Integers, Sequences, FiniteSets, TLC

VARIABLES
    script,      \* which of the three scripts is running
    pc,          \* position in the script
    argv2,       \* sys.argv[2] as typed (sequence of characters), <<>> if absent
    linesep,     \* os.linesep of the platform, as text
    cdllOk,      \* ctypes.CDLL(None) succeeds on this platform
    hasFadvise,  \* the loaded C library exports posix_fadvise
    exists,      \* the target file exists
    mode,        \* permissions of the target file: "rw", "wo", "ro"
    file,        \* bytes of the target file
    buf,         \* application-level buffer of the file object being written
    DATA_SIZE,   \* benchmark_python.py:8
    libc,        \* benchmark_python.py:19-24, "None" or "loaded"
    op,          \* index of the running benchmark in the script's run order
    times,       \* timed_median: samples collected so far
    start,       \* start clock reading
    end,         \* end clock reading
    result,      \* value returned by the timed operation
    matLen,      \* value computed by the materialization (benchmark_python.py:46-49)
    results,     \* benchmark_python.py:104, label/value pairs in insertion order
    output,      \* lines printed on standard output
    clock,       \* last reading of the clock
    openFds,     \* descriptors opened by drop_cache and not closed
    advisory,    \* how the last drop_cache call ended
    trace        \* events of the current timed trial, in program order

env == <<argv2, linesep, cdllOk, hasFadvise>>
disk == <<exists, mode, file, buf>>
vars == <<script, pc, argv2, linesep, cdllOk, hasFadvise, exists, mode, file, buf,
          DATA_SIZE, libc, op, times, start, end, result, matLen, results, output,
          clock, openFds, advisory, trace>>

---------------------------------------------------------------------------
\* Bounds (scaled-down sizes and caps)

line_size == 4          \* benchmark_python.py:15 has 1024
DefaultSize == 10       \* benchmark_python.py:8 has 10_000_000 (not a multiple of line_size)
runs == 2               \* benchmark_python.py:37 has 30 (even, like 30)
AllDataLen == 3         \* bench_python_all.py:4 and bench_python.py:4 have 10_000_000
AllNumLines == 2        \* bench_python_all.py:6 has 1_000_000
MaxClock == 2           \* cap on the readings of time.perf_counter()
MaxWall == 1            \* largest reading of time.time()
MaxSamples == 4         \* longest sample list given to the median step on its own
MaxSample == 2          \* largest sample given to the median step on its own

---------------------------------------------------------------------------
\* Text and bytes

LF == "\n"
CR == "\r"

Rep(c, n) == [i \in 1..n |-> c]

RECURSIVE Join(_)
Join(ss) == IF ss = <<>> THEN <<>> ELSE Head(ss) \o Join(Tail(ss))

RECURSIVE SumLen(_)
SumLen(ss) == IF ss = <<>> THEN 0 ELSE Len(Head(ss)) + SumLen(Tail(ss))

Ord(c) == CASE c = "A" -> 65 [] c = "x" -> 120 [] c = LF -> 10 [] c = CR -> 13

Chr(b) == CASE b = 65 -> "A" [] b = 120 -> "x" [] b = 10 -> LF [] b = 13 -> CR

\* str.encode("utf-8") on ASCII text
Utf8Encode(s) == [i \in DOMAIN s |-> Ord(s[i])]

Utf8Decode(b) == [i \in DOMAIN b |-> Chr(b[i])]

\* text-mode write, newline=None: every "\n" becomes os.linesep
RECURSIVE TranslateOut(_, _)
TranslateOut(s, sep) ==
    IF s = <<>> THEN <<>>
    ELSE (IF Head(s) = LF THEN sep ELSE <<Head(s)>>) \o TranslateOut(Tail(s), sep)

TextWrite(s, sep) == Utf8Encode(TranslateOut(s, sep))

\* text-mode read, newline=None: "\r\n" and "\r" become "\n"
RECURSIVE Universal(_)
Universal(s) ==
    IF s = <<>> THEN <<>>
    ELSE IF Head(s) = CR /\ Len(s) > 1 /\ s[2] = LF
         THEN <<LF>> \o Universal(Tail(Tail(s)))
    ELSE IF Head(s) = CR THEN <<LF>> \o Universal(Tail(s))
    ELSE <<Head(s)>> \o Universal(Tail(s))

TextRead(b) == Universal(Utf8Decode(b))

\* f.readline(): up to and including the first "\n", or the rest, "" at end of file
ReadLine(s) ==
    IF \E i \in DOMAIN s : s[i] = LF
    THEN SubSeq(s, 1, CHOOSE i \in DOMAIN s : s[i] = LF /\ \A j \in 1..(i - 1) : s[j] # LF)
    ELSE s

\* f.readlines()
RECURSIVE ReadLines(_)
ReadLines(s) ==
    IF s = <<>> THEN <<>>
    ELSE <<ReadLine(s)>> \o ReadLines(SubSeq(s, Len(ReadLine(s)) + 1, Len(s)))

---------------------------------------------------------------------------
\* int(sys.argv[2])

Digits == {"0", "1", "2", "3", "4", "5", "6", "7", "8", "9"}

DigitVal(c) == CASE c = "0" -> 0 [] c = "1" -> 1 [] c = "2" -> 2 [] c = "3" -> 3
                 [] c = "4" -> 4 [] c = "5" -> 5 [] c = "6" -> 6 [] c = "7" -> 7
                 [] c = "8" -> 8 [] c = "9" -> 9

RECURSIVE DigitsVal(_, _)
DigitsVal(s, acc) ==
    IF s = <<>> THEN acc ELSE DigitsVal(Tail(s), 10 * acc + DigitVal(Head(s)))

AllDigits(s) == s # <<>> /\ \A i \in DOMAIN s : s[i] \in Digits

\* int(s): [ok |-> FALSE] stands for ValueError
ParseInt(s) ==
    IF AllDigits(s) THEN [ok |-> TRUE, val |-> DigitsVal(s, 0)]
    ELSE IF s # <<>> /\ Head(s) = "-" /\ AllDigits(Tail(s))
         THEN [ok |-> TRUE, val |-> 0 - DigitsVal(Tail(s), 0)]
    ELSE [ok |-> FALSE, val |-> 0]

\* the size arguments tried
SizeArgs == { <<>>, <<"4">>, <<"9">>, <<"3">>, <<"-", "4">>, <<"x">> }

---------------------------------------------------------------------------
\* Payloads

\* benchmark_python.py:11
data_str(S) == Rep("A", S)

\* benchmark_python.py:12
data_bytes(S) == Rep(65, S)

\* lines built one character too long
lines_full_filler(S) == [i \in 1..(S \div line_size) |-> Rep("A", line_size) \o <<LF>>]

\* benchmark_python.py:16
lines(S) == [i \in 1..(S \div line_size) |-> Rep("A", line_size - 1) \o <<LF>>]

\* bench_python_all.py:4, bench_python.py:4
DATA == Rep("x", AllDataLen)

\* bench_python_all.py:5
BYTES == Utf8Encode(DATA)

\* bench_python_all.py:6
LINES == Rep(<<"x">>, AllNumLines)

---------------------------------------------------------------------------
\* Run order and labels

\* benchmark_python.py:105-113
HarnessOps == <<"writeString", "writeBytes", "writeLines", "writeLine",
                "readString", "readBytes", "readLines", "readLine">>

\* bench_python_all.py:46-51
AllOps == <<"writeString", "readString", "writeBytes", "readBytes",
            "writeLines", "readLines">>

\* bench_python.py:6-16
SimpleOps == <<"WriteAll", "ReadAll">>

RunOrder(s) == CASE s = "benchmark_python" -> HarnessOps
                 [] s = "bench_python_all" -> AllOps
                 [] s = "bench_python" -> SimpleOps
                 [] OTHER -> <<>>

Label == RunOrder(script)[op]

WriteLabels == {"writeString", "writeBytes", "writeLines", "writeLine", "WriteAll"}

\* benchmark_python.py:110-113 pass setup=lambda: drop_cache(filename)
HasSetup(l) == l \in {"readString", "readBytes", "readLines", "readLine"}

None == [type |-> "None", val |-> <<>>]

---------------------------------------------------------------------------
\* Write functions: the bytes the write statements hand to the file object

\* one f.write(l) per item, text mode
RECURSIVE WriteEach(_, _)
WriteEach(ls, sep) ==
    IF ls = <<>> THEN <<>> ELSE TextWrite(Head(ls), sep) \o WriteEach(Tail(ls), sep)

\* benchmark_python.py:57
write_string(S, sep) == TextWrite(data_str(S), sep)

\* benchmark_python.py:63
write_bytes(S) == data_bytes(S)

\* benchmark_python.py:69
write_lines(S, sep) == WriteEach(lines(S), sep)

\* benchmark_python.py:75-76
write_line(S, sep) == WriteEach(lines(S), sep)

\* bench_python_all.py:11
benchmark_write_string(sep) == TextWrite(DATA, sep)

\* bench_python_all.py:23
benchmark_write_bytes == BYTES

\* bench_python_all.py:35
benchmark_write_lines(sep) == WriteEach([i \in DOMAIN LINES |-> LINES[i] \o <<LF>>], sep)

\* bench_python.py:9
WriteAll(sep) == TextWrite(DATA, sep)

Payload(s, l, S, sep) ==
    CASE s = "benchmark_python" /\ l = "writeString" -> write_string(S, sep)
      [] s = "benchmark_python" /\ l = "writeBytes" -> write_bytes(S)
      [] s = "benchmark_python" /\ l = "writeLines" -> write_lines(S, sep)
      [] s = "benchmark_python" /\ l = "writeLine" -> write_line(S, sep)
      [] s = "bench_python_all" /\ l = "writeString" -> benchmark_write_string(sep)
      [] s = "bench_python_all" /\ l = "writeBytes" -> benchmark_write_bytes
      [] s = "bench_python_all" /\ l = "writeLines" -> benchmark_write_lines(sep)
      [] s = "bench_python" /\ l = "WriteAll" -> WriteAll(sep)

\* the file opened without truncation
OpenKeeping(f) == f

\* open(filename, "w") / open(filename, "wb"): the content after opening
OpenForWrite(f) == <<>>

---------------------------------------------------------------------------
\* Read functions: the value returned for file content f

\* benchmark_python.py:81-83
read_string(f) == [type |-> "str", val |-> TextRead(f)]

\* benchmark_python.py:85-87
read_bytes(f) == [type |-> "bytes", val |-> f]

\* benchmark_python.py:89-91
read_lines(f) == [type |-> "list", val |-> ReadLines(TextRead(f))]

\* benchmark_python.py:96-100
RECURSIVE ReadLineLoop(_, _)
ReadLineLoop(rest, out) ==
    LET line == ReadLine(rest)
    IN IF line = <<>> THEN out
       ELSE ReadLineLoop(SubSeq(rest, Len(line) + 1, Len(rest)), Append(out, line))

\* benchmark_python.py:93-101
read_line(f) == [type |-> "list", val |-> ReadLineLoop(TextRead(f), <<>>)]

ReadResult(l, f) ==
    CASE l \in {"readString", "ReadAll"} -> read_string(f)
      [] l = "readBytes" -> read_bytes(f)
      [] l = "readLines" -> read_lines(f)
      [] l = "readLine" -> read_line(f)

\* a read function that opens the file for writing
AfterReadTruncating(f) == <<>>

\* the file after a read function ran on it
AfterRead(f) == f

---------------------------------------------------------------------------
\* Median of the samples

RECURSIVE Insert(_, _)
Insert(x, s) ==
    IF s = <<>> THEN <<x>>
    ELSE IF x <= Head(s) THEN <<x>> \o s
    ELSE <<Head(s)>> \o Insert(x, Tail(s))

\* list.sort()
RECURSIVE Sorted(_)
Sorted(s) == IF s = <<>> THEN <<>> ELSE Insert(Head(s), Sorted(Tail(s)))

\* the middle element taken without sorting
middle_unsorted(ts) == ts[(Len(ts) \div 2) + 1]

\* benchmark_python.py:51-52, times[len(times) // 2] with 0-based indexing
timed_median(ts) == Sorted(ts)[(Len(ts) \div 2) + 1]

---------------------------------------------------------------------------
\* Cache advisory

\* the attribute lookup of posix_fadvise left outside the try block
drop_cache_unguarded(lc, canRead, sym, rc) ==
    IF lc = "None" THEN [raised |-> FALSE, leaked |-> 0, how |-> "noLibc"]
    ELSE IF ~sym THEN [raised |-> TRUE, leaked |-> 0, how |-> "unsupported"]
    ELSE IF ~canRead THEN [raised |-> FALSE, leaked |-> 0, how |-> "openFailed"]
    ELSE IF rc # 0 THEN [raised |-> FALSE, leaked |-> 0, how |-> "errorReturn"]
    ELSE [raised |-> FALSE, leaked |-> 0, how |-> "ok"]

\* benchmark_python.py:26-34: how one call ends. canRead: os.open succeeds;
\* sym: libc.posix_fadvise resolves; rc: what the advisory returns.
drop_cache(lc, canRead, sym, rc) ==
    IF lc = "None" THEN [raised |-> FALSE, leaked |-> 0, how |-> "noLibc"]
    ELSE IF ~canRead THEN [raised |-> FALSE, leaked |-> 0, how |-> "openFailed"]
    ELSE IF ~sym THEN [raised |-> FALSE, leaked |-> 1, how |-> "unsupported"]
    ELSE IF rc # 0 THEN [raised |-> FALSE, leaked |-> 0, how |-> "errorReturn"]
    ELSE [raised |-> FALSE, leaked |-> 0, how |-> "ok"]

---------------------------------------------------------------------------
\* Clocks, permissions, control flow

\* time.perf_counter(): monotonic, never below the previous reading c
PerfCounter(c) == {t \in c..(c + 1) : t <= MaxClock}

\* time.time(): wall clock, may be stepped back between two readings
WallClock(c) == 0..MaxWall

CanRead == exists /\ mode \in {"rw", "ro"}

CanWrite == ~exists \/ mode \in {"rw", "wo"}

\* an exception swallowed by a broad handler, the script ending normally
Swallow(p) == "done"

\* an exception no handler catches ends the script at position p
Raise(p) == "aborted"

\* benchmark_python.py:39-41: position after n samples of operation l
NextTrialPc(l, n) ==
    IF n < runs THEN (IF HasSetup(l) THEN "setup" ELSE "start") ELSE "sort"

\* the with block left right after the write, without flush and fsync
AfterWriteClose(s) == "close"

\* the statement after the write: f.flush() in benchmark_python.py:58,64,70,77;
\* the end of the with block in bench_python_all.py:11,23,35 and bench_python.py:9
AfterWritePc(s) == IF s = "benchmark_python" THEN "flush" ELSE "close"

\* benchmark_python.py:44 comes before benchmark_python.py:46-49
AfterFuncPc(s) == IF s = "benchmark_python" THEN "end" ELSE "s_print"

Event(e) == trace' = Append(trace, e)

Junk == <<120, 10, 120, 120, 120, 120, 120, 120, 120, 120, 120, 120, 120, 120>>

Scripts == {"benchmark_python", "bench_python_all", "bench_python"}

---------------------------------------------------------------------------
\* Initial states

InitCommon ==
    /\ linesep \in {<<LF>>, <<CR, LF>>}
    /\ \/ exists = FALSE /\ mode = "rw" /\ file = <<>>
       \/ exists = TRUE /\ mode \in {"rw", "wo", "ro"} /\ file = Junk
    /\ buf = <<>>
    /\ DATA_SIZE = 0
    /\ libc = "None"
    /\ op = 1
    /\ times = <<>>
    /\ start = 0
    /\ end = 0
    /\ result = None
    /\ matLen = 0
    /\ results = <<>>
    /\ output = <<>>
    /\ clock = 0
    /\ openFds = 0
    /\ advisory = "none"
    /\ trace = <<>>

Init ==
    /\ script \in Scripts
    /\ pc = CASE script = "benchmark_python" -> "args"
              [] script = "bench_python_all" -> "header"
              [] script = "bench_python" -> "s_start"
    /\ argv2 \in (IF script = "benchmark_python" THEN SizeArgs ELSE {<<>>})
    /\ cdllOk \in (IF script = "benchmark_python" THEN BOOLEAN ELSE {TRUE})
    /\ hasFadvise \in (IF script = "benchmark_python" /\ cdllOk THEN BOOLEAN ELSE {cdllOk})
    /\ InitCommon

---------------------------------------------------------------------------
\* benchmark_python.py

\* benchmark_python.py:7-16
ParseArgs ==
    /\ pc = "args"
    /\ IF argv2 = <<>>
       THEN DATA_SIZE' = DefaultSize /\ pc' = "libc"
       ELSE IF ParseInt(argv2).ok
            THEN DATA_SIZE' = ParseInt(argv2).val /\ pc' = "libc"
            ELSE DATA_SIZE' = DATA_SIZE /\ pc' = Raise(pc)
    /\ UNCHANGED <<script, env, disk, libc, op, times, start, end, result, matLen,
                   results, output, clock, openFds, advisory, trace>>

\* benchmark_python.py:19-24, then the first call of timed_median at line 105
LoadLibc ==
    /\ pc = "libc"
    /\ libc' = IF cdllOk THEN "loaded" ELSE "None"
    /\ pc' = NextTrialPc(Label, 0)
    /\ UNCHANGED <<script, env, disk, DATA_SIZE, op, times, start, end, result, matLen,
                   results, output, clock, openFds, advisory, trace>>

\* benchmark_python.py:40-41 calling benchmark_python.py:26-34
DropCache ==
    /\ pc = "setup"
    /\ \E rc \in {0, 22} :
         LET r == drop_cache(libc, CanRead, hasFadvise, rc)
         IN /\ advisory' = r.how
            /\ openFds' = openFds + r.leaked
            /\ pc' = IF r.raised THEN Raise(pc) ELSE "start"
    /\ UNCHANGED <<script, env, disk, DATA_SIZE, libc, op, times, start, end, result,
                   matLen, results, output, clock, trace>>

\* benchmark_python.py:42
StartClock ==
    /\ pc = "start"
    /\ \E t \in PerfCounter(clock) : clock' = t /\ start' = t
    /\ trace' = <<"start">>
    /\ pc' = IF Label \in WriteLabels THEN "open" ELSE "read"
    /\ UNCHANGED <<script, env, disk, DATA_SIZE, libc, op, times, end, result, matLen,
                   results, output, openFds, advisory>>

\* open(filename, "w") or open(filename, "wb"), in all three scripts
OpenW ==
    /\ pc = "open"
    /\ IF CanWrite
       THEN /\ exists' = TRUE
            /\ mode' = IF exists THEN mode ELSE "rw"
            /\ file' = OpenForWrite(file)
            /\ buf' = <<>>
            /\ Event("open")
            /\ pc' = "write"
       ELSE /\ UNCHANGED <<disk, trace>>
            /\ pc' = Raise(pc)
    /\ UNCHANGED <<script, env, DATA_SIZE, libc, op, times, start, end, result, matLen,
                   results, output, clock, openFds, advisory>>

\* f.write(...), f.writelines(...) or the loop of f.write(l), in all three scripts
WriteData ==
    /\ pc = "write"
    /\ buf' = buf \o Payload(script, Label, DATA_SIZE, linesep)
    /\ Event("write")
    /\ pc' = AfterWritePc(script)
    /\ UNCHANGED <<script, env, exists, mode, file, DATA_SIZE, libc, op, times, start,
                   end, result, matLen, results, output, clock, openFds, advisory>>

\* f.flush(), benchmark_python.py:58,64,70,77; it fails when the disk is full
Flush ==
    /\ pc = "flush"
    /\ \/ /\ file' = file \o buf
          /\ buf' = <<>>
          /\ Event("flush")
          /\ pc' = "fsync"
       \/ /\ buf # <<>>
          /\ \E k \in 0..(Len(buf) - 1) : file' = file \o SubSeq(buf, 1, k)
          /\ UNCHANGED <<buf, trace>>
          /\ pc' = Raise(pc)
    /\ UNCHANGED <<script, env, exists, mode, DATA_SIZE, libc, op, times, start, end,
                   result, matLen, results, output, clock, openFds, advisory>>

\* os.fsync(f.fileno()), benchmark_python.py:59,65,71,78
Fsync ==
    /\ pc = "fsync"
    /\ \/ Event("fsync") /\ pc' = "close"
       \/ UNCHANGED trace /\ pc' = Raise(pc)
    /\ UNCHANGED <<script, env, disk, DATA_SIZE, libc, op, times, start, end, result,
                   matLen, results, output, clock, openFds, advisory>>

\* the end of the with block: f.close() writes out what is still buffered
CloseW ==
    /\ pc = "close"
    /\ \/ /\ file' = file \o buf
          /\ buf' = <<>>
          /\ Event("close")
          /\ result' = None
          /\ pc' = AfterFuncPc(script)
       \/ /\ buf # <<>>
          /\ \E k \in 0..(Len(buf) - 1) : file' = file \o SubSeq(buf, 1, k)
          /\ UNCHANGED <<buf, trace, result>>
          /\ pc' = Raise(pc)
    /\ UNCHANGED <<script, env, exists, mode, DATA_SIZE, libc, op, times, start, end,
                   matLen, results, output, clock, openFds, advisory>>

\* the read functions, benchmark_python.py:81-101, bench_python_all.py:16-17,
\* 28-29, 40-41, bench_python.py:14-15
ReadFunc ==
    /\ pc = "read"
    /\ IF CanRead
       THEN /\ result' = ReadResult(Label, file)
            /\ file' = AfterRead(file)
            /\ Event("read")
            /\ pc' = AfterFuncPc(script)
       ELSE /\ UNCHANGED <<result, file, trace>>
            /\ pc' = Raise(pc)
    /\ UNCHANGED <<script, env, exists, mode, buf, DATA_SIZE, libc, op, times, start,
                   end, matLen, results, output, clock, openFds, advisory>>

\* benchmark_python.py:44
EndClock ==
    /\ pc = "end"
    /\ \E t \in PerfCounter(clock) : clock' = t /\ end' = t
    /\ Event("end")
    /\ pc' = "mat"
    /\ UNCHANGED <<script, env, disk, DATA_SIZE, libc, op, times, start, result, matLen,
                   results, output, openFds, advisory>>

\* benchmark_python.py:46-49
Materialize ==
    /\ pc = "mat"
    /\ IF result.type \in {"str", "bytes"}
       THEN matLen' = Len(result.val) /\ Event("materialize")
       ELSE IF result.type = "list"
            THEN matLen' = SumLen(result.val) /\ Event("materialize")
            ELSE UNCHANGED <<matLen, trace>>
    /\ pc' = "append"
    /\ UNCHANGED <<script, env, disk, DATA_SIZE, libc, op, times, start, end, result,
                   results, output, clock, openFds, advisory>>

\* benchmark_python.py:50, then the loop test of line 39
AppendSample ==
    /\ pc = "append"
    /\ times' = Append(times, (end - start) * 1000)
    /\ pc' = NextTrialPc(Label, Len(times'))
    /\ UNCHANGED <<script, env, disk, DATA_SIZE, libc, op, start, end, result, matLen,
                   results, output, clock, openFds, advisory, trace>>

\* benchmark_python.py:51-52 and the assignment to results[...] in lines 105-113
SortReturn ==
    /\ pc = "sort"
    /\ results' = Append(results, [k |-> Label, v |-> timed_median(times)])
    /\ times' = <<>>
    /\ IF op < Len(HarnessOps)
       THEN op' = op + 1 /\ pc' = NextTrialPc(HarnessOps[op + 1], 0)
       ELSE op' = op /\ pc' = "print"
    /\ UNCHANGED <<script, env, disk, DATA_SIZE, libc, start, end, result, matLen,
                   output, clock, openFds, advisory, trace>>

\* benchmark_python.py:116-117, one iteration
PrintResult ==
    /\ pc = "print"
    /\ output' = Append(output, results[Len(output) + 1])
    /\ pc' = IF Len(output') = Len(results) THEN "done" ELSE "print"
    /\ UNCHANGED <<script, env, disk, DATA_SIZE, libc, op, times, start, end, result,
                   matLen, results, clock, openFds, advisory, trace>>

---------------------------------------------------------------------------
\* bench_python_all.py and bench_python.py

\* bench_python_all.py:45
PrintHeader ==
    /\ pc = "header"
    /\ output' = Append(output, [k |-> "--- Python Benchmarks ---", v |-> 0])
    /\ pc' = "s_start"
    /\ UNCHANGED <<script, env, disk, DATA_SIZE, libc, op, times, start, end, result,
                   matLen, results, clock, openFds, advisory, trace>>

\* start = time.time(): bench_python_all.py:9,15,21,27,33,39, bench_python.py:7,13
SStart ==
    /\ pc = "s_start"
    /\ \E t \in WallClock(clock) : clock' = t /\ start' = t
    /\ trace' = <<"start">>
    /\ pc' = IF Label \in WriteLabels THEN "open" ELSE "read"
    /\ UNCHANGED <<script, env, disk, DATA_SIZE, libc, op, times, end, result, matLen,
                   results, output, openFds, advisory>>

\* print(... time.time() - start ...): bench_python_all.py:12,18,24,30,36,42,
\* bench_python.py:10,16
SPrint ==
    /\ pc = "s_print"
    /\ \E t \in WallClock(clock) :
         /\ clock' = t
         /\ end' = t
         /\ output' = Append(output, [k |-> Label, v |-> t - start])
    /\ Event("end")
    /\ IF op < Len(RunOrder(script))
       THEN op' = op + 1 /\ pc' = "s_start"
       ELSE op' = op /\ pc' = "done"
    /\ UNCHANGED <<script, env, disk, DATA_SIZE, libc, times, start, result, matLen,
                   results, openFds, advisory>>

Next ==
    \/ ParseArgs
    \/ LoadLibc
    \/ DropCache
    \/ StartClock
    \/ OpenW
    \/ WriteData
    \/ Flush
    \/ Fsync
    \/ CloseW
    \/ ReadFunc
    \/ EndClock
    \/ Materialize
    \/ AppendSample
    \/ SortReturn
    \/ PrintResult
    \/ PrintHeader
    \/ SStart
    \/ SPrint

Spec == Init /\ [][Next]_vars

---------------------------------------------------------------------------
\* The median step of timed_median on its own, for every list of samples

SampleLists == UNION {[1..n -> 0..MaxSample] : n \in 1..MaxSamples}

InitMedian ==
    /\ script = "timed_median"
    /\ pc = "m_sort"
    /\ times \in SampleLists
    /\ argv2 = <<>>
    /\ linesep = <<LF>>
    /\ cdllOk = TRUE
    /\ hasFadvise = TRUE
    /\ exists = FALSE
    /\ mode = "rw"
    /\ file = <<>>
    /\ buf = <<>>
    /\ DATA_SIZE = 0
    /\ libc = "None"
    /\ op = 1
    /\ start = 0
    /\ end = 0
    /\ result = None
    /\ matLen = 0
    /\ results = <<>>
    /\ output = <<>>
    /\ clock = 0
    /\ openFds = 0
    /\ advisory = "none"
    /\ trace = <<>>

\* benchmark_python.py:51-52
MedianReturn ==
    /\ pc = "m_sort"
    /\ result' = [type |-> "float", val |-> timed_median(times)]
    /\ pc' = "m_done"
    /\ UNCHANGED <<script, env, disk, DATA_SIZE, libc, op, times, start, end, matLen,
                   results, output, clock, openFds, advisory, trace>>

NextMedian == MedianReturn

SpecMedian == InitMedian /\ [][NextMedian]_vars

---------------------------------------------------------------------------
\* Vocabulary of the properties

Harness == script = "benchmark_python"

TotalLen(r) == IF r.type = "list" THEN SumLen(r.val) ELSE Len(r.val)

\* position of event e in the current trial, 0 when it has not happened
Pos(e) == IF \E i \in DOMAIN trace : trace[i] = e
          THEN CHOOSE i \in DOMAIN trace : trace[i] = e
          ELSE 0

Before(a, b) == Pos(a) > 0 /\ Pos(b) > 0 /\ Pos(a) < Pos(b)

CountLess(s, x) == Cardinality({i \in DOMAIN s : s[i] < x})

CountLeq(s, x) == Cardinality({i \in DOMAIN s : s[i] <= x})

\* the k-th smallest sample, counting from 1
KthSmallest(s, k) ==
    CHOOSE x \in {s[i] : i \in DOMAIN s} : CountLess(s, x) < k /\ CountLeq(s, x) >= k

\* twice the statistical median
TwiceMedian(s) ==
    IF Len(s) % 2 = 1
    THEN 2 * KthSmallest(s, (Len(s) + 1) \div 2)
    ELSE KthSmallest(s, Len(s) \div 2) + KthSmallest(s, (Len(s) \div 2) + 1)

\* a read function of benchmark_python.py has just returned
ReadReturned == Harness /\ pc = "end" /\ Label \notin WriteLabels

\* a line-mode write has just completed
LineWriteDone == pc \in {"end", "s_print"} /\ Label \in {"writeLines", "writeLine"}

Newlines(t) == Cardinality({i \in DOMAIN t : t[i] = LF})

\* text t is n lines, each ended by one newline, and nothing after the last
LineShape(t, n) ==
    /\ Newlines(t) = n
    /\ t # <<>> => t[Len(t)] = LF /\ t[1] # LF
    /\ \A i \in 2..Len(t) : t[i] = LF => t[i - 1] # LF

ConfiguredLines == IF Harness THEN DATA_SIZE \div line_size ELSE AllNumLines

ResultLabels == {HarnessOps[i] : i \in DOMAIN HarnessOps} \cup {SimpleOps[i] : i \in DOMAIN SimpleOps}

ResultLines == SelectSeq(output, LAMBDA l : l.k \in ResultLabels)

AdvisoryFailed == advisory \in {"noLibc", "openFailed", "unsupported", "errorReturn"}

\* the operation at the current position fails for a reason fixed by the environment
MustFail ==
    \/ pc = "args" /\ argv2 # <<>> /\ ~ParseInt(argv2).ok
    \/ pc = "open" /\ ~CanWrite
    \/ pc = "read" /\ ~CanRead

\* the text whose text-mode encoding on this platform is the value a read returned
AsWritten(r) ==
    CASE r.type = "bytes" -> r.val
      [] r.type = "str" -> TextWrite(r.val, linesep)
      [] r.type = "list" -> TextWrite(Join(r.val), linesep)

---------------------------------------------------------------------------
\* C1

---------------------------------------------------------------------------
\* C2

\* C2 as stated: the value returned for N samples is their statistical median.
C2_StatisticalMedian == pc = "m_done" => 2 * result.val = TwiceMedian(times)

\* C2 as amended: the value returned is the (N // 2 + 1)-th smallest sample, the
\* element at 0-based index N // 2 of the sorted samples; for odd N it is the
\* statistical median, for even N the upper of the two middle samples.
C2_UpperMedian ==
    pc = "m_done" =>
        /\ result.val = KthSmallest(times, (Len(times) \div 2) + 1)
        /\ Len(times) % 2 = 1 => 2 * result.val = TwiceMedian(times)

C2_Witness ==
    /\ pc = "m_done"
    /\ Len(times) = 4
    /\ times[1] > times[2]
    /\ times[3] > times[4]
    /\ 2 * result.val # TwiceMedian(times)

---------------------------------------------------------------------------
\* C3

\* C3 as stated: after a line-mode write the file holds exactly the configured
\* number of lines (DATA_SIZE // line_size, resp. the length of LINES), each
\* ended by one newline, and nothing else.
C3_ConfiguredLineCount == LineWriteDone => LineShape(TextRead(file), ConfiguredLines)

\* C3 as amended: the number of lines is the configured number when that is not
\* negative, and 0 (an empty file) when DATA_SIZE is negative.
C3_LineCount ==
    LineWriteDone =>
        LineShape(TextRead(file), IF ConfiguredLines < 0 THEN 0 ELSE ConfiguredLines)

C3_Witness ==
    /\ LineWriteDone
    /\ Harness
    /\ Label = "writeLine"
    /\ DATA_SIZE \div line_size = 2
    /\ Newlines(TextRead(file)) = 2

---------------------------------------------------------------------------
\* C4

\* C4 as stated: in every script every sample, median and printed duration is
\* non-negative, the end reading never being below the start reading.
C4_NonNegative ==
    /\ \A i \in DOMAIN output : output[i].v >= 0
    /\ \A i \in DOMAIN results : results[i].v >= 0
    /\ \A i \in DOMAIN times : times[i] >= 0
    /\ Pos("end") > 0 => end >= start

---------------------------------------------------------------------------
\* C5

\* C5 as stated: in every script a timed write goes start clock, write, flush,
\* fsync, end clock.
C5_DurableBeforeEnd ==
    (Pos("write") > 0 /\ Pos("end") > 0) =>
        /\ Before("start", "write")
        /\ Before("write", "flush")
        /\ Before("flush", "fsync")
        /\ Before("fsync", "end")

\* C5 as amended: that order holds in benchmark_python.py; in bench_python_all.py
\* and bench_python.py the write is followed by the close of the file (which
\* writes out the buffer) and then the end clock reading, with no flush call and
\* no fsync.
C5_DurableInHarnessOnly ==
    (Pos("write") > 0 /\ Pos("end") > 0) =>
        IF Harness
        THEN /\ Before("start", "write")
             /\ Before("write", "flush")
             /\ Before("flush", "fsync")
             /\ Before("fsync", "end")
        ELSE /\ Before("start", "write")
             /\ Before("write", "close")
             /\ Before("close", "end")
             /\ Pos("flush") = 0
             /\ Pos("fsync") = 0

C5_Witness ==
    /\ Harness
    /\ Label = "writeLines"
    /\ pc = "append"
    /\ trace = <<"start", "open", "write", "flush", "fsync", "close", "end">>

---------------------------------------------------------------------------
\* C6

\* C6 as stated: whatever way the advisory failed, the trial that follows is
\* timed and the run goes on to collect its samples (it never aborts there).
C6_TrialAlwaysTimed == (Harness /\ AdvisoryFailed) => pc # "aborted"

\* C6 as amended: drop_cache never raises and the trial that follows is started;
\* the trial is timed and timed_median returns with exactly `runs` samples
\* provided the file can be read -- when os.open failed because the file is
\* missing or unreadable, the read that follows raises too and the run aborts.
C6_AdvisoryFailureIgnored ==
    /\ [][pc = "setup" => pc' = "start"]_vars
    /\ []((Harness /\ AdvisoryFailed /\ CanRead) => pc # "aborted")
    /\ [](pc = "sort" => Len(times) = runs)

C6_Witness ==
    /\ Harness
    /\ pc = "sort"
    /\ Label = "readString"
    /\ advisory = "unsupported"
    /\ Len(times) = runs

---------------------------------------------------------------------------
\* C7

\* C7 as stated: when the run aborts no result line has been printed for any
\* operation.
C7_NoPartialResults == pc = "aborted" => ResultLines = <<>>

\* C7 as amended: a failing open for write, a failing read or a size argument
\* int() rejects aborts the run there, and nothing runs after the abort;
\* benchmark_python.py has then printed nothing, while bench_python_all.py and
\* bench_python.py have printed the lines of exactly the operations that
\* completed before the failure.
C7_AbortAtFailure ==
    /\ [][MustFail => pc' = "aborted"]_vars
    /\ [][pc # "aborted"]_vars
    /\ []((pc = "aborted" /\ Harness) => output = <<>>)
    /\ []((pc = "aborted" /\ ~Harness) =>
             /\ Len(ResultLines) = op - 1
             /\ \A i \in DOMAIN ResultLines : ResultLines[i].k = RunOrder(script)[i])

C7_Witness ==
    /\ Harness
    /\ pc = "aborted"
    /\ Len(results) = 4
    /\ Label = "readString"
    /\ output = <<>>

---------------------------------------------------------------------------
\* C8

\* C8 as stated: in every trial of timed_median the returned value has been
\* materialized by the time the end clock reading is taken.
C8_MaterializedBeforeEnd ==
    (Harness /\ Pos("end") > 0 /\ result.type # "None") => Before("materialize", "end")

---------------------------------------------------------------------------
\* C9

\* C9: during the read benchmarks of benchmark_python.py no step changes the
\* file, the file holds what the loop of write_line wrote, and the value a read
\* returns is the content of the file (its bytes, or the text they encode).
C9_ReadsLeaveFile ==
    /\ [][(Harness /\ Label \notin WriteLabels) => file' = file]_vars
    /\ []((Harness /\ Label \notin WriteLabels) => file = write_line(DATA_SIZE, linesep))
    /\ [](ReadReturned => AsWritten(result) = file)

C9_Witness ==
    /\ ReadReturned
    /\ Label = "readLine"
    /\ Len(times) = runs - 1
    /\ advisory = "ok"
    /\ file # <<>>

---------------------------------------------------------------------------
\* C10

\* C10 as stated: no descriptor opened by drop_cache is left open once it has
\* returned.
C10_NoDescriptorLeft == openFds = 0

====
